---- MODULE Spec2Model ----
(***************************************************************************)
(* A model of scripts/lint.py (RustLint): the discovery of cargo project   *)
(* directories, the selection of the tools of a mode and the run of every  *)
(* selected tool over every target directory.                              *)
(*                                                                         *)
(* A directory is the sequence of its path components from the filesystem  *)
(* root (<<>> is "/").  A path handed to a tool is a record                *)
(* [abs, comps]: a relative path is resolved against the working           *)
(* directory CWD, the way os.path.join / os.path.abspath resolve it.       *)
(* A changed file is the sequence of its components relative to CWD, its   *)
(* last component being the file's name.                                   *)
(***************************************************************************)
EXTENDS Integers, Sequences, FiniteSets, TLC

VARIABLES
    pc,            \* the position of the process
    markers,       \* filesystem: the directories that hold a Cargo.toml
    args,          \* the parsed command line (argparse Namespace)
    selected_tools,\* run's selected_tools
    modified,      \* get_modified_files' result
    target_paths,  \* main's target_paths / run's target_dirs
    tools_to_run,  \* run's tools_to_run / run_on_dirs' tools
    paths,         \* run's paths / run_on_dirs' dirs
    ti,            \* run_on_dirs: index of the tool of the outer loop
    di,            \* run_on_dirs: index of the directory of the inner loop
    tool_failed,   \* run_on_dirs: tool_failed
    failures,      \* run_on_dirs: failures
    calls,         \* history: every BaseRustTool.run call, in order
    console,       \* what was printed, in order
    exit_code,     \* the status the process ended with (-1: still running)
    fin,           \* library calls: the arguments of the function applied
    fout           \* library calls: the function's result

vars == <<pc, markers, args, selected_tools, modified, target_paths, tools_to_run, paths, ti, di,
          tool_failed, failures, calls, console, exit_code, fin, fout>>

(***************************************************************************)
(* Bounds.                                                                 *)
(***************************************************************************)
MaxPaths == 2      \* positional paths on the command line
MaxDiff == 1       \* lines of each git diff output in a run of the program
MaxChanged == 2    \* lines of each git diff output handed to the resolver alone
MaxTools == 2      \* entries of a registry handed to the runner's methods
MaxFilter == 2     \* names of a filter handed to get_tools_to_run
MaxDepth == 3      \* depth of the directory a located file lies in

Range(s) == {s[i] : i \in 1..Len(s)}

BoundedSeq(S, n) == UNION {[1..k -> S] : k \in 0..n}

NoDup(s) == \A i, j \in 1..Len(s) : s[i] = s[j] => i = j

(***************************************************************************)
(* The filesystem and the paths of the program's runs.                     *)
(***************************************************************************)
Root == <<>>
CWD == <<"w">>
Dirs == {Root, CWD, CWD \o <<"p">>}
RelDirs == {<<>>, <<"p">>}
Files == {<<"x">>, <<"p", "x">>, <<"p", "y">>}

Rel(comps) == [abs |-> FALSE, comps |-> comps]
Abs(comps) == [abs |-> TRUE, comps |-> comps]

DEFAULT_CARGO_DIR == Rel(<<>>)

\* os.path.abspath of a directory path
AbsPath(p) == IF p.abs THEN p.comps ELSE CWD \o p.comps

\* os.path.exists(os.path.join(directory, "Cargo.toml"))
HasManifest(p, mk) == AbsPath(p) \in mk

\* os.path.abspath(os.path.join(curr_dir, os.pardir)): the root is its own parent
Parent(d) == IF d = Root THEN Root ELSE SubSeq(d, 1, Len(d) - 1)

\* os.path.abspath(os.path.dirname(path)) of a file path relative to CWD
AbsDirname(path) == CWD \o SubSeq(path, 1, Len(path) - 1)

(***************************************************************************)
(* find_cargo_manifest_dir                                                 *)
(***************************************************************************)
NotFound == [found |-> FALSE, dir |-> Root]

\* A loop body that tests for the root before it looks for the manifest.
LoopBody_root_first(curr_dir, mk) ==
    IF curr_dir = Parent(curr_dir)
    THEN [kind |-> "break", dir |-> curr_dir]
    ELSE IF curr_dir \in mk
         THEN [kind |-> "return", dir |-> curr_dir]
         ELSE [kind |-> "continue", dir |-> Parent(curr_dir)]

\* One pass of the body of `while True`: return, break or go on with the parent.
LoopBody(curr_dir, mk) ==
    IF curr_dir \in mk
    THEN [kind |-> "return", dir |-> curr_dir]
    ELSE IF curr_dir = Parent(curr_dir)
         THEN [kind |-> "break", dir |-> curr_dir]
         ELSE [kind |-> "continue", dir |-> Parent(curr_dir)]

RECURSIVE WalkUp(_, _)
WalkUp(curr_dir, mk) ==
    LET b == LoopBody(curr_dir, mk)
    IN  CASE b.kind = "return" -> [found |-> TRUE, dir |-> b.dir]
          [] b.kind = "break" -> NotFound
          [] OTHER -> WalkUp(b.dir, mk)

find_cargo_manifest_dir(path, mk) == WalkUp(AbsDirname(path), mk)

(***************************************************************************)
(* get_modified_files, get_modified_dirs                                   *)
(***************************************************************************)
\* list(dict.fromkeys(s)): the first occurrence of every element, in order
RECURSIVE DictFromKeys(_)
DictFromKeys(s) ==
    IF s = <<>> THEN <<>>
    ELSE LET r == DictFromKeys(SubSeq(s, 1, Len(s) - 1))
         IN  IF s[Len(s)] \in Range(r) THEN r ELSE Append(r, s[Len(s)])

\* lines 245-246: combine, remove duplicates, keep the files that exist
ModifiedFiles(staged, unstaged, exists) ==
    LET InExists(f) == f \in exists
    IN  SelectSeq(DictFromKeys(staged \o unstaged), InExists)

\* The loop without its `manifest_dir not in dirs` test.
RECURSIVE CollectDirs_no_dedup(_, _, _)
CollectDirs_no_dedup(files, dirs, mk) ==
    IF files = <<>> THEN dirs
    ELSE LET manifest_dir == find_cargo_manifest_dir(Head(files), mk)
         IN  IF manifest_dir.found
             THEN CollectDirs_no_dedup(Tail(files), Append(dirs, manifest_dir.dir), mk)
             ELSE CollectDirs_no_dedup(Tail(files), dirs, mk)

\* lines 258-262: the loop over modified_files, from the list `dirs` built so far
RECURSIVE CollectDirs(_, _, _)
CollectDirs(files, dirs, mk) ==
    IF files = <<>> THEN dirs
    ELSE LET manifest_dir == find_cargo_manifest_dir(Head(files), mk)
         IN  IF manifest_dir.found /\ manifest_dir.dir \notin Range(dirs)
             THEN CollectDirs(Tail(files), Append(dirs, manifest_dir.dir), mk)
             ELSE CollectDirs(Tail(files), dirs, mk)

ModifiedDirs(files, mk) == CollectDirs(files, <<>>, mk)

(***************************************************************************)
(* The registries of RustToolRunner.__init__ and get_tools_to_run.         *)
(* A registry (a dict, which keeps insertion order) is the sequence of its *)
(* entries [key, tool]; a tool is [name, command].                         *)
(***************************************************************************)
Entry(key, name, command) ==
    [key |-> key, tool |-> [name |-> name, command |-> command]]

linters == << Entry("clippy", "clippy", <<"cargo", "clippy", "--", "-D", "warnings">>) >>
formatters == << Entry("fmt", "fmt", <<"cargo", "fmt">>) >>
fixers == << Entry("fix", "fix", <<"cargo", "fix">>) >>
unsafe_fixers ==
    << Entry("fix", "fix", <<"cargo", "fix", "--allow-dirty", "--allow-staged">>) >>

\* An optional list of names: None, or a list (which may be empty).
None == [given |-> FALSE, names |-> <<>>]
Some(names) == [given |-> TRUE, names |-> names]

\* Python's truth value of an optional list
Truthy(opt) == opt.given /\ opt.names # <<>>

\* A filter test `selected_tools is not None` in place of its truth value.
get_tools_to_run_not_none(tools, selected) ==
    LET Selected(e) == e.key \in Range(selected.names)
    IN  IF selected.given THEN SelectSeq(tools, Selected) ELSE tools

get_tools_to_run(tools, selected) ==
    LET Selected(e) == e.key \in Range(selected.names)
    IN  IF Truthy(selected) THEN SelectSeq(tools, Selected) ELSE tools

(***************************************************************************)
(* BaseRustTool.run and handle_result                                      *)
(***************************************************************************)
\* What a child process may end with: its exit status and its error output.
ProcessOutcomes ==
    { [returncode |-> 0, stdout |-> "", stderr |-> ""],
      [returncode |-> 101, stdout |-> "", stderr |-> "error: foo"] }

\* A run that does not look for the manifest before it starts the command.
ToolRun_no_skip(tool, directory, mk, proc) ==
    [name |-> tool.name, success |-> (proc.returncode = 0),
     stdout |-> proc.stdout, stderr |-> proc.stderr,
     invoked |-> TRUE, command |-> tool.command, dir |-> directory,
     returncode |-> proc.returncode]

\* The call's record: the ToolResult returned, and whether subprocess.run ran.
ToolRun(tool, directory, mk, proc) ==
    IF ~HasManifest(directory, mk)
    THEN [name |-> tool.name, success |-> TRUE, stdout |-> "Skipped",
          stderr |-> "", invoked |-> FALSE, command |-> <<>>, dir |-> directory]
    ELSE [name |-> tool.name, success |-> (proc.returncode = 0),
          stdout |-> proc.stdout, stderr |-> proc.stderr,
          invoked |-> TRUE, command |-> tool.command, dir |-> directory,
          returncode |-> proc.returncode]

\* handle_result returning the success flag instead of its negation.
handle_result_inverted(result) == result.success

\* handle_result's return value: True if the tool failed
handle_result(result) == ~result.success

\* what handle_result prints
ResultLines(result) ==
    IF ~result.success
    THEN <<[kind |-> "issues", name |-> result.name, dir |-> result.dir],
           [kind |-> "stdout", name |-> result.name, dir |-> result.dir]>>
         \o (IF result.stderr # ""
             THEN <<[kind |-> "stderr", name |-> result.name, dir |-> result.dir]>>
             ELSE <<>>)
    ELSE <<[kind |-> "passed", name |-> result.name, dir |-> result.dir]>>

\* what BaseRustTool.run prints
SkipLines(tool, directory, mk) ==
    IF ~HasManifest(directory, mk)
    THEN <<[kind |-> "skipping", name |-> tool.name, dir |-> directory]>>
    ELSE <<>>

(***************************************************************************)
(* The program: main, get_modified_files, get_modified_dirs,               *)
(* RustToolRunner.run and run_on_dirs.                                     *)
(***************************************************************************)
\* argparse: --linters and --formatters take one or more of their choices
LinterArgs == {None, Some(<<"clippy">>)}
FormatterArgs == {None, Some(<<"fmt">>)}

\* The command lines explored.  With --git-modified the positional paths are
\* never read (line 316), and at most one is given.
ArgSpace ==
    { a \in [paths : BoundedSeq({Rel(d) : d \in RelDirs}, MaxPaths),
             linters : LinterArgs,
             format : BOOLEAN,
             formatters : FormatterArgs,
             fix : BOOLEAN,
             unsafe_fixes : BOOLEAN,
             git_modified : BOOLEAN] :
        a.git_modified => Len(a.paths) <= 1 }

Running == -1

\* sys.exit(code)
Exit(code) == pc' = "exited" /\ exit_code' = code

Init ==
    /\ pc = "main"
    /\ markers \in SUBSET Dirs
    /\ args \in ArgSpace
    /\ selected_tools = None
    /\ modified = <<>>
    /\ target_paths = <<>>
    /\ tools_to_run = <<>>
    /\ paths = <<>>
    /\ ti = 1
    /\ di = 1
    /\ tool_failed = FALSE
    /\ failures = <<>>
    /\ calls = <<>>
    /\ console = <<>>
    /\ exit_code = Running
    /\ fin = <<>>
    /\ fout = <<>>

\* main, lines 314-321: the target paths, or the call of get_modified_dirs
Main ==
    /\ pc = "main"
    /\ IF args.git_modified
       THEN pc' = "get_modified_files" /\ UNCHANGED target_paths
       ELSE /\ pc' = "run"
            /\ target_paths' = IF args.paths # <<>> THEN args.paths
                               ELSE <<DEFAULT_CARGO_DIR>>
    /\ UNCHANGED <<markers, args, selected_tools, modified, tools_to_run, paths, ti, di, tool_failed,
                   failures, calls, console, exit_code, fin, fout>>

\* get_modified_files on what git answers: the staged query raises on a non-zero
\* status (check=True), the unstaged one does not; both lists are what git printed.
get_modified_files(staged_ok, staged, unstaged, exists) ==
    /\ pc = "get_modified_files"
    /\ IF ~staged_ok
       THEN /\ pc' = "fault"
            /\ exit_code' = 1
            /\ UNCHANGED <<modified, console>>
       ELSE /\ modified' = ModifiedFiles(staged, unstaged, exists)
            /\ IF modified' = <<>>
               THEN /\ console' = Append(console, [kind |-> "no_modified_files"])
                    /\ Exit(0)
               ELSE /\ pc' = "get_modified_dirs"
                    /\ UNCHANGED <<console, exit_code>>
    /\ UNCHANGED <<markers, args, selected_tools, target_paths, tools_to_run, paths, ti, di,
                   tool_failed, failures, calls, fin, fout>>

\* get_modified_files in a run of the program: git's answers are the run's inputs,
\* and so is the existence of every file asked for (line 246 asks for the listed
\* files only).
GetModifiedFiles ==
    \/ get_modified_files(FALSE, <<>>, <<>>, {})
    \/ \E staged \in BoundedSeq(Files, MaxDiff),
          unstaged \in BoundedSeq(Files, MaxDiff) :
         \E exists \in SUBSET Range(staged \o unstaged) :
           get_modified_files(TRUE, staged, unstaged, exists)

\* get_modified_dirs returning an empty list instead of ending the process.
GetModifiedDirs_no_exit ==
    /\ pc = "get_modified_dirs"
    /\ LET dirs == ModifiedDirs(modified, markers)
       IN  /\ target_paths' = [i \in 1..Len(dirs) |-> Abs(dirs[i])]
           /\ pc' = "run"
           /\ UNCHANGED <<console, exit_code>>
    /\ UNCHANGED <<markers, args, selected_tools, modified, tools_to_run, paths, ti, di,
                   tool_failed, failures, calls, fin, fout>>

\* get_modified_dirs, lines 258-266, and main's assignment of its result
GetModifiedDirs ==
    /\ pc = "get_modified_dirs"
    /\ LET dirs == ModifiedDirs(modified, markers)
       IN  IF dirs = <<>>
           THEN /\ console' = Append(console, [kind |-> "no_modified_projects"])
                /\ Exit(0)
                /\ UNCHANGED target_paths
           ELSE /\ target_paths' = [i \in 1..Len(dirs) |-> Abs(dirs[i])]
                /\ pc' = "run"
                /\ UNCHANGED <<console, exit_code>>
    /\ UNCHANGED <<markers, args, selected_tools, modified, tools_to_run, paths, ti, di, tool_failed,
                   failures, calls, fin, fout>>

\* A filter chosen by the mode: none in fixing mode.
SelectedTools_by_mode(a) ==
    IF a.format THEN a.formatters ELSE IF a.fix THEN None ELSE a.linters

\* main, line 324
SelectedTools(a) == IF a.format THEN a.formatters ELSE a.linters

\* The fixing mode tested before the formatting mode.
ModeRegistry_fix_first(is_formatting, is_fixing, is_unsafe_fixing) ==
    IF is_fixing
    THEN (IF is_unsafe_fixing THEN unsafe_fixers ELSE fixers)
    ELSE IF is_formatting THEN formatters ELSE linters

\* run, lines 171-190: the registry of the mode
ModeRegistry(is_formatting, is_fixing, is_unsafe_fixing) ==
    IF is_formatting THEN formatters
    ELSE IF is_fixing
         THEN (IF is_unsafe_fixing THEN unsafe_fixers ELSE fixers)
         ELSE linters

\* run, lines 172, 177, 187: the banner of the mode
ModeBanner(is_formatting, is_fixing) ==
    IF is_formatting THEN "Running formatter (cargo fmt)..."
    ELSE IF is_fixing THEN "Running fixer (cargo fix)..."
         ELSE "Running linter (cargo clippy)..."

\* run, lines 202-208
ActionName(is_formatting, is_fixing) ==
    IF is_formatting THEN "formatting"
    ELSE IF is_fixing THEN "fixes" ELSE "linting checks"

\* main's call of runner.run, and run up to its call of run_on_dirs
Run ==
    /\ pc = "run"
    /\ selected_tools' = SelectedTools(args)
    /\ tools_to_run' = get_tools_to_run(
                           ModeRegistry(args.format, args.fix, args.unsafe_fixes),
                           selected_tools')
    /\ console' = Append(console, [kind |-> "banner",
                                   text |-> ModeBanner(args.format, args.fix)])
    /\ paths' = IF target_paths # <<>> THEN target_paths ELSE <<DEFAULT_CARGO_DIR>>
    /\ failures' = <<>>
    /\ ti' = 1
    /\ pc' = "for_tool"
    /\ UNCHANGED <<markers, args, modified, target_paths, di, tool_failed, calls,
                   exit_code, fin, fout>>

\* run_on_dirs, lines 146-147: the next tool of the outer loop
NextTool ==
    /\ pc = "for_tool"
    /\ ti <= Len(tools_to_run)
    /\ tool_failed' = FALSE
    /\ di' = 1
    /\ pc' = "for_dir"
    /\ UNCHANGED <<markers, args, selected_tools, modified, target_paths, tools_to_run, paths, ti,
                   failures, calls, console, exit_code, fin, fout>>

\* The inner loop leaving at the first failing directory.
ToolRunStep_break ==
    /\ pc = "for_dir"
    /\ di <= Len(paths)
    /\ \E proc \in ProcessOutcomes :
         LET tool == tools_to_run[ti].tool
             d == paths[di]
             result == ToolRun(tool, d, markers, proc)
         IN  /\ calls' = Append(calls, result)
             /\ console' = console \o SkipLines(tool, d, markers) \o ResultLines(result)
             /\ tool_failed' = IF handle_result(result) THEN TRUE ELSE tool_failed
             /\ di' = IF handle_result(result) THEN Len(paths) + 1 ELSE di + 1
    /\ UNCHANGED <<pc, markers, args, selected_tools, modified, target_paths,
                   tools_to_run, paths, ti, failures, exit_code, fin, fout>>

\* run_on_dirs, lines 148-151: tool.run(d) and handle_result on the next directory
ToolRunStep ==
    /\ pc = "for_dir"
    /\ di <= Len(paths)
    /\ \E proc \in ProcessOutcomes :
         LET tool == tools_to_run[ti].tool
             d == paths[di]
             result == ToolRun(tool, d, markers, proc)
         IN  /\ calls' = Append(calls, result)
             /\ console' = console \o SkipLines(tool, d, markers) \o ResultLines(result)
             /\ tool_failed' = IF handle_result(result) THEN TRUE ELSE tool_failed
    /\ di' = di + 1
    /\ UNCHANGED <<pc, markers, args, selected_tools, modified, target_paths, tools_to_run, paths, ti,
                   failures, exit_code, fin, fout>>

\* The tool's name recorded whether or not the tool failed.
EndTool_unconditional ==
    /\ pc = "for_dir"
    /\ di > Len(paths)
    /\ failures' = Append(failures, tools_to_run[ti].tool.name)
    /\ ti' = ti + 1
    /\ pc' = "for_tool"
    /\ UNCHANGED <<markers, args, selected_tools, modified, target_paths, tools_to_run,
                   paths, di, tool_failed, calls, console, exit_code, fin, fout>>

\* run_on_dirs, lines 152-153: after the last directory of the tool
EndTool ==
    /\ pc = "for_dir"
    /\ di > Len(paths)
    /\ failures' = IF tool_failed THEN Append(failures, tools_to_run[ti].tool.name)
                   ELSE failures
    /\ ti' = ti + 1
    /\ pc' = "for_tool"
    /\ UNCHANGED <<markers, args, selected_tools, modified, target_paths, tools_to_run, paths, di,
                   tool_failed, calls, console, exit_code, fin, fout>>

\* run_on_dirs' return and run, lines 195-210
Finish ==
    /\ pc = "for_tool"
    /\ ti > Len(tools_to_run)
    /\ IF failures # <<>>
       THEN /\ console' = Append(console, [kind |-> "failed", names |-> failures])
            /\ Exit(1)
       ELSE /\ console' = Append(console, [kind |-> "success",
                                  text |-> ActionName(args.format, args.fix)])
            /\ Exit(0)
    /\ UNCHANGED <<markers, args, selected_tools, modified, target_paths, tools_to_run, paths, ti, di,
                   tool_failed, failures, calls, fin, fout>>

Next ==
    \/ Main
    \/ GetModifiedFiles
    \/ GetModifiedDirs
    \/ Run
    \/ NextTool
    \/ ToolRunStep
    \/ EndTool
    \/ Finish

Spec == Init /\ [][Next]_vars

(***************************************************************************)
(* run_on_dirs and the end of run on any registry: the registries hold one *)
(* tool each, and the methods take any dict of tools.                      *)
(***************************************************************************)
ToolNames == {"clippy", "fmt", "fix"}

Registries ==
    { r \in BoundedSeq({Entry(n, n, <<"cargo", n>>) : n \in ToolNames}, MaxTools) :
        NoDup(r) }

LintArgs ==
    [paths |-> <<>>, linters |-> None, format |-> FALSE, formatters |-> None,
     fix |-> FALSE, unsafe_fixes |-> FALSE, git_modified |-> FALSE]

InitExt ==
    /\ pc = "for_tool"
    /\ markers \in SUBSET Dirs
    /\ args = LintArgs
    /\ selected_tools = None
    /\ modified = <<>>
    /\ target_paths \in BoundedSeq({Rel(d) : d \in RelDirs}, MaxPaths)
    /\ paths = target_paths
    /\ tools_to_run \in Registries
    /\ ti = 1
    /\ di = 1
    /\ tool_failed = FALSE
    /\ failures = <<>>
    /\ calls = <<>>
    /\ console = <<>>
    /\ exit_code = Running
    /\ fin = <<>>
    /\ fout = <<>>

NextExt ==
    \/ NextTool
    \/ ToolRunStep
    \/ EndTool
    \/ Finish

SpecExt == InitExt /\ [][NextExt]_vars

(***************************************************************************)
(* get_tools_to_run applied to any registry and any filter.                *)
(***************************************************************************)
FilterNames == ToolNames \cup {"x"}

Filters == {None} \cup {Some(f) : f \in BoundedSeq(FilterNames, MaxFilter)}

InitSelect ==
    /\ pc = "get_tools_to_run"
    /\ fin \in [tools : Registries, selected_tools : Filters]
    /\ fout = <<>>
    /\ markers = {}
    /\ args = LintArgs
    /\ selected_tools = None
    /\ modified = <<>>
    /\ target_paths = <<>>
    /\ paths = <<>>
    /\ tools_to_run = <<>>
    /\ ti = 1
    /\ di = 1
    /\ tool_failed = FALSE
    /\ failures = <<>>
    /\ calls = <<>>
    /\ console = <<>>
    /\ exit_code = Running

Select ==
    /\ pc = "get_tools_to_run"
    /\ fout' = get_tools_to_run(fin.tools, fin.selected_tools)
    /\ pc' = "returned"
    /\ UNCHANGED <<markers, args, selected_tools, modified, target_paths, tools_to_run, paths, ti, di,
                   tool_failed, failures, calls, console, exit_code, fin>>

NextSelect == Select

SpecSelect == InitSelect /\ [][NextSelect]_vars

(***************************************************************************)
(* get_modified_dirs on given answers of git and a given filesystem.       *)
(***************************************************************************)
GitArgs == [LintArgs EXCEPT !.git_modified = TRUE]

InitResolve ==
    /\ pc = "get_modified_files"
    /\ fin \in [staged : BoundedSeq(Files, MaxChanged),
                unstaged : BoundedSeq(Files, MaxChanged),
                exists : SUBSET Files]
    /\ markers \in SUBSET Dirs
    /\ fout = <<>>
    /\ args = GitArgs
    /\ selected_tools = None
    /\ modified = <<>>
    /\ target_paths = <<>>
    /\ paths = <<>>
    /\ tools_to_run = <<>>
    /\ ti = 1
    /\ di = 1
    /\ tool_failed = FALSE
    /\ failures = <<>>
    /\ calls = <<>>
    /\ console = <<>>
    /\ exit_code = Running

ResolveFiles == get_modified_files(TRUE, fin.staged, fin.unstaged, fin.exists)

NextResolve ==
    \/ ResolveFiles
    \/ GetModifiedDirs

SpecResolve == InitResolve /\ [][NextResolve]_vars

(***************************************************************************)
(* find_cargo_manifest_dir, one pass of its loop at a time, on a chain of  *)
(* directories /w, /w/p, /w/p/p, ...                                       *)
(***************************************************************************)
LocChain == [i \in 1..MaxDepth |-> IF i = 1 THEN "w" ELSE "p"]
LocDirs == {SubSeq(LocChain, 1, k) : k \in 0..MaxDepth}
LocFiles == {SubSeq(LocChain, 2, k) \o <<"x">> : k \in 1..MaxDepth}

InitLocator ==
    /\ pc = "while"
    /\ fin \in LocFiles
    /\ markers \in SUBSET LocDirs
    /\ fout = [curr_dir |-> AbsDirname(fin), result |-> NotFound, passes |-> 0]
    /\ args = LintArgs
    /\ selected_tools = None
    /\ modified = <<>>
    /\ target_paths = <<>>
    /\ paths = <<>>
    /\ tools_to_run = <<>>
    /\ ti = 1
    /\ di = 1
    /\ tool_failed = FALSE
    /\ failures = <<>>
    /\ calls = <<>>
    /\ console = <<>>
    /\ exit_code = Running

\* lines 218-225: one pass of the loop; `passes` counts them
LocatorStep ==
    /\ pc = "while"
    /\ LET b == LoopBody(fout.curr_dir, markers)
       IN  CASE b.kind = "return" ->
                  /\ fout' = [fout EXCEPT !.result = [found |-> TRUE, dir |-> b.dir],
                                          !.passes = @ + 1]
                  /\ pc' = "returned"
             [] b.kind = "break" ->
                  /\ fout' = [fout EXCEPT !.result = NotFound, !.passes = @ + 1]
                  /\ pc' = "returned"
             [] OTHER ->
                  /\ fout' = [fout EXCEPT !.curr_dir = b.dir, !.passes = @ + 1]
                  /\ pc' = "while"
    /\ UNCHANGED <<markers, args, selected_tools, modified, target_paths, tools_to_run, paths, ti, di,
                   tool_failed, failures, calls, console, exit_code, fin>>

NextLocator == LocatorStep

SpecLocator == InitLocator /\ [][NextLocator]_vars

(***************************************************************************)
(* The claims.                                                             *)
(***************************************************************************)
\* run has been entered: its banner is printed first
RunStarted == \E i \in 1..Len(console) : console[i].kind = "banner"

\* the steps of run and run_on_dirs
RunSteps == Run \/ NextTool \/ ToolRunStep \/ EndTool \/ Finish

\* the command of tool entry e, started in directory d, ended with a non-zero status
FailingCommand(e, d) ==
    \E k \in 1..Len(calls) :
        /\ calls[k].name = e.tool.name
        /\ calls[k].dir = d
        /\ calls[k].invoked
        /\ calls[k].returncode # 0

\* C1: run ends the process with status 1 if and only if the command of a selected
\* tool ended with a non-zero status in a target directory that holds the manifest,
\* and with status 0 in every other case; until then run can always take a step.
C1_ExitCodeIffCommandFailed ==
    /\ (pc = "exited" /\ RunStarted) =>
          exit_code = (IF \E i \in 1..Len(tools_to_run), j \in 1..Len(paths) :
                             /\ HasManifest(paths[j], markers)
                             /\ FailingCommand(tools_to_run[i], paths[j])
                       THEN 1 ELSE 0)
    /\ (pc \in {"run", "for_tool", "for_dir"}) => (exit_code = Running /\ ENABLED RunSteps)

\* C1 witness: a run over a directory without manifest and a directory where the
\* command fails has ended with status 1.
C1_Witness ==
    /\ pc = "exited"
    /\ RunStarted
    /\ exit_code = 1
    /\ \E k \in 1..Len(calls) : ~calls[k].invoked
    /\ \E k \in 1..Len(calls) : calls[k].invoked /\ calls[k].returncode # 0

\* C2: every call of a tool on a directory without the manifest returned success
\* and started no process.
C2_SkipIsSuccessWithoutProcess ==
    \A k \in 1..Len(calls) :
        ~HasManifest(calls[k].dir, markers) =>
            /\ calls[k].success
            /\ ~calls[k].invoked
            /\ calls[k].command = <<>>

\* C2 witness: a tool was called on a directory without the manifest.
C2_Witness ==
    \E k \in 1..Len(calls) : ~HasManifest(calls[k].dir, markers)

\* C3: the calls made so far are the first pairs of the tool-major enumeration of
\* tools x directories, one call per pair, whatever the earlier results; the loops
\* can always go on, and the process ends only after the last pair.
C3_EveryPairOnceInToolMajorOrder ==
    LET m == Len(tools_to_run)
        n == Len(paths)
    IN  /\ Len(calls) <= m * n
        /\ \A k \in 1..Len(calls) :
              /\ calls[k].name = tools_to_run[((k - 1) \div n) + 1].tool.name
              /\ calls[k].dir = paths[((k - 1) % n) + 1]
        /\ (pc = "exited") => (Len(calls) = m * n)
        /\ (pc \in {"for_tool", "for_dir"}) => ENABLED RunSteps

\* C3 witness: two tools ran over two directories to the end although the first
\* call failed.
C3_Witness ==
    /\ pc = "exited"
    /\ Len(tools_to_run) = 2
    /\ Len(paths) = 2
    /\ Len(calls) = 4
    /\ ~calls[1].success

\* the tool called `name` failed in a directory processed so far
FailedSomewhere(name) ==
    \E k \in 1..Len(calls) : calls[k].name = name /\ ~calls[k].success

\* C4 as stated: at every point of the run the failure list holds a tool's name if
\* and only if the tool failed in a directory processed so far, and holds it once.
C4_FailuresAtEveryPoint ==
    /\ NoDup(failures)
    /\ \A name \in ToolNames : (name \in Range(failures)) <=> FailedSomewhere(name)

\* C4 as amended: the failure list holds a tool's name, once, if and only if the
\* tool's loop over the directories is over and the tool failed in one of them;
\* while the loop runs the failure is held in tool_failed; at the end of the run the
\* list holds exactly the tools that failed in a directory.
C4_FailuresOfFinishedTools ==
    /\ NoDup(failures)
    /\ \A name \in ToolNames :
          (name \in Range(failures)) <=>
              \E i \in 1..Len(tools_to_run) :
                  /\ i < ti
                  /\ tools_to_run[i].tool.name = name
                  /\ FailedSomewhere(name)
    /\ (pc = "for_dir") => (tool_failed <=> FailedSomewhere(tools_to_run[ti].tool.name))
    /\ (pc = "exited" /\ Len(calls) > 0) =>
          \A name \in ToolNames : (name \in Range(failures)) <=> FailedSomewhere(name)

\* C4 witness: the run is over, a tool failed in two directories and is listed once.
C4_Witness ==
    /\ pc = "exited"
    /\ Len(failures) = 1
    /\ \E j, k \in 1..Len(calls) :
          /\ j < k
          /\ calls[j].name = failures[1] /\ ~calls[j].success
          /\ calls[k].name = failures[1] /\ ~calls[k].success

\* the longest prefix of the directory of `path` that holds the manifest
Nearest(path, mk) ==
    LET d == AbsDirname(path)
        ks == {k \in 0..Len(d) : SubSeq(d, 1, k) \in mk}
    IN  IF ks = {} THEN NotFound
        ELSE [found |-> TRUE,
              dir |-> SubSeq(d, 1, CHOOSE k \in ks : \A l \in ks : l <= k)]

\* in git-modified mode: no changed file exists, or none has an owning project
NothingToDo ==
    \A i \in 1..Len(modified) : ~Nearest(modified[i], markers).found

\* C5: in git-modified mode, once the changed files are known and none of them has
\* an owning project (or none exists), the process ends with status 0 without
\* entering run and without a tool call; a process that has ended takes no step.
C5_NothingToDoExitsZero ==
    /\ (args.git_modified /\ pc \notin {"main", "get_modified_files", "fault"}
            /\ NothingToDo) =>
          /\ pc \in {"get_modified_dirs", "exited"}
          /\ (pc = "get_modified_dirs") => ENABLED (GetModifiedDirs /\ pc' = "exited")
          /\ (pc = "exited") => exit_code = 0
          /\ calls = <<>>
          /\ ~RunStarted
    /\ (pc \in {"exited", "fault"}) => ~ENABLED Next

\* C5 witness: changed files exist, none has an owning project, the process ended.
C5_Witness ==
    /\ args.git_modified
    /\ pc = "exited"
    /\ modified # <<>>
    /\ NothingToDo

\* C6: the walk returns the nearest directory with the manifest on the chain from
\* the file's directory to the root, NotFound exactly when the chain has none; it
\* makes at most one pass per directory of the chain and never stops before it
\* returns; the walk agrees with the function the program calls.
C6_NearestManifestDir ==
    /\ (pc = "returned") =>
          /\ fout.result = Nearest(fin, markers)
          /\ fout.result = find_cargo_manifest_dir(fin, markers)
    /\ (pc = "while") =>
          /\ ENABLED LocatorStep
          /\ \E k \in 0..Len(AbsDirname(fin)) :
                /\ fout.curr_dir = SubSeq(AbsDirname(fin), 1, k)
                /\ \A l \in (k + 1)..Len(AbsDirname(fin)) :
                      SubSeq(AbsDirname(fin), 1, l) \notin markers
    /\ fout.passes <= Len(AbsDirname(fin)) + 1

\* C6 witness: the walk went up and returned a directory below another one that
\* holds the manifest too.
C6_Witness ==
    /\ pc = "returned"
    /\ fout.result.found
    /\ fout.passes >= 2
    /\ \E k \in 0..(Len(fout.result.dir) - 1) : SubSeq(fout.result.dir, 1, k) \in markers

\* the changed files, as the resolver was given them
Changed == fin.staged \o fin.unstaged

\* the changed file at index i exists and has an owning project
Owning(i) == Changed[i] \in fin.exists /\ Nearest(Changed[i], markers).found

OwningDirs == {Nearest(Changed[i], markers).dir : i \in {j \in 1..Len(Changed) : Owning(j)}}

\* the index of the first changed file that maps to directory d
FirstIndex(d) ==
    CHOOSE i \in 1..Len(Changed) :
        /\ Owning(i) /\ Nearest(Changed[i], markers).dir = d
        /\ \A j \in 1..(i - 1) : ~(Owning(j) /\ Nearest(Changed[j], markers).dir = d)

\* C7: the directories handed on are absolute, without duplicates, exactly the
\* owning projects of the changed files that exist, in the order of the first
\* changed file (staged before unstaged) of each; the process ends early only when
\* there is no such directory.
C7_ChangedProjectDirs ==
    /\ (pc = "run") =>
          /\ \A i \in 1..Len(target_paths) : target_paths[i].abs
          /\ NoDup(target_paths)
          /\ {target_paths[i].comps : i \in 1..Len(target_paths)} = OwningDirs
          /\ \A i, j \in 1..Len(target_paths) :
                i < j => FirstIndex(target_paths[i].comps) < FirstIndex(target_paths[j].comps)
    /\ (pc = "exited") => (OwningDirs = {} /\ exit_code = 0)

\* C7 witness: changed files mapping to D1, D2, D1 gave the two directories D1, D2.
C7_Witness ==
    /\ pc = "run"
    /\ Len(target_paths) = 2
    /\ \E i, j, k \in 1..Len(Changed) :
          /\ i < j /\ j < k
          /\ Owning(i) /\ Owning(j) /\ Owning(k)
          /\ Nearest(Changed[i], markers).dir = target_paths[1].comps
          /\ Nearest(Changed[j], markers).dir = target_paths[2].comps
          /\ Nearest(Changed[k], markers).dir = target_paths[1].comps

\* the position of entry e in registry t
PositionIn(t, e) == CHOOSE i \in 1..Len(t) : t[i] = e

RegistryByPriority ==
    CASE args.format -> formatters
      [] ~args.format /\ args.fix /\ args.unsafe_fixes -> unsafe_fixers
      [] ~args.format /\ args.fix /\ ~args.unsafe_fixes -> fixers
      [] OTHER -> linters

\* the action named by the success banner, by the same priority
ActionByPriority ==
    CASE args.format -> "formatting"
      [] ~args.format /\ args.fix -> "fixes"
      [] OTHER -> "linting checks"

\* C9: once run is entered, the tools to run are tools of the registry the flags
\* choose by the priority formatting, fixing (unsafe with --unsafe-fixes), linting,
\* all of them without a filter; every command started is that registry's; a
\* success banner names the action of the same priority.
C9_ModePriority ==
    RunStarted =>
        /\ Range(tools_to_run) \subseteq Range(RegistryByPriority)
        /\ ~Truthy(selected_tools) => tools_to_run = RegistryByPriority
        /\ \A k \in 1..Len(calls) :
              calls[k].invoked => calls[k].command = RegistryByPriority[1].tool.command
        /\ \A i \in 1..Len(console) :
              console[i].kind = "success" => console[i].text = ActionByPriority

\* C9 witness: with --format, --fix and --unsafe-fixes, cargo fmt ran and the
\* formatting banner ended the run.
C9_Witness ==
    /\ pc = "exited"
    /\ args.format /\ args.fix /\ args.unsafe_fixes
    /\ \E k \in 1..Len(calls) : calls[k].invoked /\ calls[k].command = <<"cargo", "fmt">>
    /\ console[Len(console)] = [kind |-> "success", text |-> "formatting"]

\* C10: the filter run gets is the --formatters list with --format and the
\* --linters list otherwise; with --fix, without --format and with a non-empty
\* --linters list, no tool is selected, no tool is called, run goes on to its end
\* and ends the process with status 0 and the success banner.
C10_LintersFilterEmptiesFixers ==
    RunStarted =>
        /\ selected_tools = (IF args.format THEN args.formatters ELSE args.linters)
        /\ (args.fix /\ ~args.format /\ Truthy(args.linters)) =>
              /\ tools_to_run = <<>>
              /\ calls = <<>>
              /\ (pc # "exited") => ENABLED RunSteps
              /\ (pc = "exited") =>
                    /\ exit_code = 0
                    /\ console[Len(console)] = [kind |-> "success", text |-> "fixes"]

\* C10 witness: such a run ended although a target directory holds the manifest.
C10_Witness ==
    /\ pc = "exited"
    /\ RunStarted
    /\ args.fix /\ ~args.format /\ Truthy(args.linters)
    /\ \E j \in 1..Len(paths) : HasManifest(paths[j], markers)

====
